---- MODULE Spec2Model ----
(***************************************************************************)
(* Model of the AI module of the NestJS boilerplate: the conversation      *)
(* store (ConversationService over Prisma), the REST controller            *)
(* (AiController), the WebSocket gateway (AiGateway) and the Bull          *)
(* processor (AiTaskProcessor).  Every await of a handler is one step, so  *)
(* that handlers interleave as they do on the Node event loop.             *)
(***************************************************************************)
EXTENDS Integers, Sequences, FiniteSets, TLC

(* ------------------------------ bounds --------------------------------- *)
MaxConv == 2            \* conversation rows ever created
MaxReqs == 2            \* REST chat / embedding requests ever made
MaxStreams == 2         \* chat:start messages ever received
MaxChunks == 3          \* chunks one provider stream yields at most
MaxStops == 1           \* chat:stop messages a socket ever sends
MaxJobs == 1            \* jobs ever added to the queue
MaxStalled == 1         \* times a job is handed out again after its worker died
MaxClock == 2           \* milliseconds the database clock advances
MaxLimit == 3           \* largest limit passed to getConversationHistory
MaxSeconds == 1         \* seconds the server clock advances

(* ---------------------------- value spaces ----------------------------- *)
Users == {"u1", "u2"}
NoUser == "nobody"
ConvIds == 1..MaxConv
NoConv == 0
NoTokens == -1          \* Message.tokens is Int? : the column left NULL
ReqIds == 1..MaxReqs
StreamIds == 1..MaxStreams
JobIds == 1..MaxJobs
Sockets == {"k1"}

\* message texts a caller sends (strings as sequences of characters)
UserTexts == {<<"h", "i">>}
\* data.message of chat:start: the gateway validates nothing, so it may be ''
StreamTexts == {<<>>, <<"h", "i">>}

\* what openai.chat.completions.create can resolve to: message.content may be
\* null, usage.total_tokens may be missing
Completions ==
  { [isNull |-> TRUE,  content |-> <<>>,         total |-> 0],
    [isNull |-> FALSE, content |-> <<"a", "b">>, total |-> 2] }
ProviderError == [isNull |-> TRUE, content |-> <<"E">>, total |-> -1]
EmbedTotals == {1}
\* what one iteration of the provider's stream yields: delta.content || '' and
\* finish_reason
Chunks == [content : {<<>>, <<"a">>, <<"b">>}, finishReason : {"", "stop"}]
Outcomes == {"ok", "err"}     \* a Prisma call resolves or rejects

\* narrower inputs of the specifications that run handlers side by side
ModeUsers == {"u1"}
ModeConvs == {1}
ModeChunks == {c \in Chunks : (c.content = <<>>) = (c.finishReason # "")}
StoreWorks == {"ok"}

VARIABLES
  convOwner,    \* conversations table: id -> userId, NoUser when no such row
  nextConv,     \* number of conversation rows ever created (ids are never reused)
  messages,     \* messages table, in insertion order
  log,          \* history variable: every message row ever inserted
  usage,        \* users.totalTokensUsed
  usageLog,     \* history variable: every successful updateTokenUsage call
  reply,        \* the response of the last conversation REST request
  rest,         \* REST chat/embedding requests: position and locals
  st,           \* runs of AiGateway.handleChatStream: position and locals
  events,       \* what the server emitted on each socket, in order
  conn,         \* each socket: "new", "open" or "closed"
  jobs,         \* the jobs of the ai-tasks queue and the processor's locals
  now,          \* the database clock, in milliseconds
  lookup,       \* the last getConversationHistory call and what it returned
  auth          \* AuthService: refresh_tokens table, clock and requests

store == <<convOwner, nextConv, messages, usage>>
wsVars == <<st, events, conn>>
vars == <<convOwner, nextConv, messages, log, usage, usageLog, reply, rest,
          st, events, conn, jobs, now, lookup, auth>>

(* ------------------------ ConversationService --------------------------- *)
\* (mutant) the lookup by id alone, without the userId condition
FindFirstById(owner, c, u) == c \in ConvIds /\ owner[c] # NoUser

\* prisma.conversation.findFirst({ where: { id, userId } })
FindFirst(owner, c, u) == c \in ConvIds /\ owner[c] = u

\* prisma.message.findMany({ where: { conversationId }, orderBy: createdAt asc }).
\* The table is kept in insertion order and the clock never goes back, so the
\* order by createdAt is the table's order wherever createdAt differs; rows of
\* equal createdAt are taken in the table's order
FindMany(msgs, c) == SelectSeq(msgs, LAMBDA m : m.conv = c)

\* Array.prototype.slice(-n): the last n elements; slice(-0) is slice(0), the
\* whole array
SliceLast(s, n) ==
  IF n = 0 \/ n >= Len(s) THEN s ELSE SubSeq(s, Len(s) - n + 1, Len(s))

\* msg.role.toLowerCase()
ToLowerCase(role) ==
  CASE role = "USER" -> "user"
    [] role = "ASSISTANT" -> "assistant"
    [] role = "SYSTEM" -> "system"

\* getConversationHistory, for a conversation the requester owns
GetConversationHistory(msgs, c, limit) ==
  LET last == SliceLast(FindMany(msgs, c), limit)
  IN  [i \in 1..Len(last) |->
         [role |-> ToLowerCase(last[i].role), content |-> last[i].content]]

HistoryLimit == 10

\* a call of getConversationHistory(conversationId, userId, limit) by any
\* caller; rows is a history field, the conversation's messages at the call
Limits == 0..MaxLimit
NoLookup == [user |-> NoUser, conv |-> NoConv, limit |-> -1, found |-> FALSE,
             entries |-> <<>>, rows |-> <<>>]
CallGetConversationHistory(u, c, limit) ==
  /\ lookup' = IF FindFirst(convOwner, c, u)
                 THEN [user |-> u, conv |-> c, limit |-> limit, found |-> TRUE,
                       entries |-> GetConversationHistory(messages, c, limit),
                       rows |-> FindMany(messages, c)]
                 ELSE [NoLookup EXCEPT !.user = u, !.conv = c, !.limit = limit]
  /\ UNCHANGED <<convOwner, nextConv, messages, log, usage, usageLog, reply,
                 rest, st, events, conn, jobs, now, auth>>

\* the row prisma.message.create inserts: createdAt DateTime @default(now()).
\* src and owner are history fields (which handler run inserted it, and who
\* owned the conversation then)
NewMessage(c, role, content, tokens, src) ==
  [id |-> Len(log) + 1, conv |-> c, role |-> role, content |-> content,
   tokens |-> tokens, createdAt |-> now, src |-> src, owner |-> convOwner[c]]

\* addMessage: inserts whenever the conversation row exists (foreign key);
\* it takes no userId and checks no ownership
CanAddMessage(c, out) == out = "ok" /\ c \in ConvIds /\ convOwner[c] # NoUser

\* (mutant) a write that is not awaited and gets lost
AddMessageLost(c, role, content, tokens, src) ==
  UNCHANGED <<messages, log>>

AddMessage(c, role, content, tokens, src) ==
  /\ messages' = Append(messages, NewMessage(c, role, content, tokens, src))
  /\ log' = Append(log, NewMessage(c, role, content, tokens, src))

\* the database clock advances by a millisecond
Tick ==
  /\ now < MaxClock
  /\ now' = now + 1
  /\ UNCHANGED <<lookup, auth, convOwner, nextConv, messages, log, usage, usageLog, reply,
                 rest, wsVars, jobs>>

\* (mutant) data: { totalTokensUsed: tokens }, a write of the amount in place
\* of the increment
UpdateTokenUsageSet(u, tokens, src) ==
  /\ usage' = [usage EXCEPT ![u] = tokens]
  /\ usageLog' = Append(usageLog, [user |-> u, tokens |-> tokens, src |-> src])

\* updateTokenUsage: one atomic increment at the storage layer
UpdateTokenUsage(u, tokens, src) ==
  /\ usage' = [usage EXCEPT ![u] = @ + tokens]
  /\ usageLog' = Append(usageLog, [user |-> u, tokens |-> tokens, src |-> src])

(* --------------------------- REST: conversations ------------------------ *)
NoReply == [op |-> "none", user |-> NoUser, conv |-> NoConv, status |-> 0,
            message |-> "", body |-> <<>>]
NotFoundReply(op, u, c) ==
  [op |-> op, user |-> u, conv |-> c, status |-> 404,
   message |-> "Conversation not found", body |-> <<>>]
OkReply(op, u, c, status, body) ==
  [op |-> op, user |-> u, conv |-> c, status |-> status, message |-> "",
   body |-> body]

\* POST /ai/conversations
CreateConversation(u) ==
  /\ nextConv < MaxConv
  /\ nextConv' = nextConv + 1
  /\ convOwner' = [convOwner EXCEPT ![nextConv + 1] = u]
  /\ reply' = OkReply("createConversation", u, nextConv + 1, 201, <<>>)
  /\ UNCHANGED <<now, lookup, auth, wsVars, jobs, messages, log, usage, usageLog, rest>>

\* GET /ai/conversations/:id
GetConversation(u, c) ==
  /\ reply' = IF FindFirst(convOwner, c, u)
                THEN OkReply("getConversation", u, c, 200, FindMany(messages, c))
                ELSE NotFoundReply("getConversation", u, c)
  /\ UNCHANGED <<now, lookup, auth, wsVars, jobs, convOwner, nextConv, messages, log, usage, usageLog, rest>>

\* ConversationService.getMessages
GetMessages(u, c) ==
  /\ reply' = IF FindFirst(convOwner, c, u)
                THEN OkReply("getMessages", u, c, 200, FindMany(messages, c))
                ELSE NotFoundReply("getMessages", u, c)
  /\ UNCHANGED <<now, lookup, auth, wsVars, jobs, convOwner, nextConv, messages, log, usage, usageLog, rest>>

\* (mutant) a delete that looks the conversation up by id alone
DeleteConversationById(u, c) ==
  /\ IF FindFirstById(convOwner, c, u)
       THEN /\ convOwner' = [convOwner EXCEPT ![c] = NoUser]
            /\ messages' = SelectSeq(messages, LAMBDA m : m.conv # c)
            /\ reply' = OkReply("deleteConversation", u, c, 204, <<>>)
       ELSE /\ reply' = NotFoundReply("deleteConversation", u, c)
            /\ UNCHANGED <<convOwner, messages>>
  /\ UNCHANGED <<now, lookup, auth, wsVars, jobs, nextConv, log, usage,
                 usageLog, rest>>

\* DELETE /ai/conversations/:id (messages go with the row: onDelete Cascade)
DeleteConversation(u, c) ==
  /\ IF FindFirst(convOwner, c, u)
       THEN /\ convOwner' = [convOwner EXCEPT ![c] = NoUser]
            /\ messages' = SelectSeq(messages, LAMBDA m : m.conv # c)
            /\ reply' = OkReply("deleteConversation", u, c, 204, <<>>)
       ELSE /\ reply' = NotFoundReply("deleteConversation", u, c)
            /\ UNCHANGED <<convOwner, messages>>
  /\ UNCHANGED <<now, lookup, auth, wsVars, jobs, nextConv, log, usage, usageLog, rest>>

(* ------------------------------ REST: chat ------------------------------ *)
\* thrown is a history field: the provider error the handler let through
IdleReq == [pc |-> "idle", user |-> NoUser, conv |-> NoConv, text |-> <<>>,
            history |-> <<>>, response |-> ProviderError, status |-> 0,
            message |-> "", thrown |-> ""]
RestSrc(r) == [kind |-> "rest", id |-> r, run |-> 1]

\* POST /ai/chat up to the first query: get or create the conversation
Chat(r, u, c, text) ==
  /\ rest[r].pc = "idle"
  /\ IF c = NoConv
       THEN /\ nextConv < MaxConv
            /\ nextConv' = nextConv + 1
            /\ convOwner' = [convOwner EXCEPT ![nextConv + 1] = u]
            /\ rest' = [rest EXCEPT ![r] = [IdleReq EXCEPT !.pc = "history",
                          !.user = u, !.conv = nextConv + 1, !.text = text]]
       ELSE /\ rest' = [rest EXCEPT ![r] = [IdleReq EXCEPT !.pc = "history",
                          !.user = u, !.conv = c, !.text = text]]
            /\ UNCHANGED <<wsVars, jobs, convOwner, nextConv>>
  /\ UNCHANGED <<now, lookup, auth, wsVars, jobs, messages, log, usage, usageLog, reply>>

\* getConversationHistory(conversationId, userId, 10)
ChatHistory(r) ==
  /\ rest[r].pc = "history"
  /\ IF FindFirst(convOwner, rest[r].conv, rest[r].user)
       THEN rest' = [rest EXCEPT ![r].pc = "addUser",
                       ![r].history = GetConversationHistory(messages,
                                        rest[r].conv, HistoryLimit)]
       ELSE rest' = [rest EXCEPT ![r].pc = "done", ![r].status = 404,
                       ![r].message = "Conversation not found"]
  /\ UNCHANGED <<now, lookup, auth, wsVars, jobs, convOwner, nextConv, messages, log, usage, usageLog, reply>>

\* addMessage(USER), then history.push
ChatAddUser(r, out) ==
  /\ rest[r].pc = "addUser"
  /\ IF CanAddMessage(rest[r].conv, out)
       THEN /\ AddMessage(rest[r].conv, "USER", rest[r].text, NoTokens, RestSrc(r))
            /\ rest' = [rest EXCEPT ![r].pc = "provider",
                          ![r].history = Append(@, [role |-> "user",
                                                    content |-> rest[r].text])]
       ELSE /\ rest' = [rest EXCEPT ![r].pc = "done", ![r].status = 500,
                          ![r].message = "Internal server error"]
            /\ UNCHANGED <<wsVars, jobs, messages, log>>
  /\ UNCHANGED <<now, lookup, auth, wsVars, jobs, convOwner, nextConv, usage, usageLog, reply>>

\* (mutant) a handler that catches the provider's error and goes on with an
\* empty completion
ChatProviderSwallow(r, res) ==
  /\ rest[r].pc = "provider"
  /\ IF res = ProviderError
       THEN rest' = [rest EXCEPT ![r].pc = "addAssistant",
                       ![r].response = [isNull |-> TRUE, content |-> <<>>,
                                        total |-> 0],
                       ![r].thrown = "ProviderError"]
       ELSE rest' = [rest EXCEPT ![r].pc = "addAssistant", ![r].response = res]
  /\ UNCHANGED <<now, lookup, auth, wsVars, jobs, convOwner, nextConv, messages, log, usage,
                 usageLog, reply>>

\* openaiService.generateCompletion(history, opts)
ChatProvider(r, res) ==
  /\ rest[r].pc = "provider"
  /\ IF res = ProviderError
       THEN rest' = [rest EXCEPT ![r].pc = "done", ![r].status = 500,
                       ![r].message = "Internal server error",
                       ![r].thrown = "ProviderError"]
       ELSE rest' = [rest EXCEPT ![r].pc = "addAssistant", ![r].response = res]
  /\ UNCHANGED <<now, lookup, auth, wsVars, jobs, convOwner, nextConv, messages, log, usage, usageLog, reply>>

\* addMessage(ASSISTANT, response.content || '', { tokens: response.tokens })
ChatAddAssistant(r, out) ==
  /\ rest[r].pc = "addAssistant"
  /\ IF CanAddMessage(rest[r].conv, out)
       THEN /\ AddMessage(rest[r].conv, "ASSISTANT", rest[r].response.content,
                          rest[r].response.total, RestSrc(r))
            /\ rest' = [rest EXCEPT ![r].pc = "usage"]
       ELSE /\ rest' = [rest EXCEPT ![r].pc = "done", ![r].status = 500,
                          ![r].message = "Internal server error"]
            /\ UNCHANGED <<wsVars, jobs, messages, log>>
  /\ UNCHANGED <<now, lookup, auth, wsVars, jobs, convOwner, nextConv, usage, usageLog, reply>>

\* updateTokenUsage(userId, response.tokens), then the 200 response
ChatUsage(r, out) ==
  /\ rest[r].pc = "usage"
  /\ IF out = "ok"
       THEN /\ UpdateTokenUsage(rest[r].user, rest[r].response.total, RestSrc(r))
            /\ rest' = [rest EXCEPT ![r].pc = "done", ![r].status = 200]
       ELSE /\ rest' = [rest EXCEPT ![r].pc = "done", ![r].status = 500,
                          ![r].message = "Internal server error"]
            /\ UNCHANGED <<wsVars, jobs, usage, usageLog>>
  /\ UNCHANGED <<now, lookup, auth, wsVars, jobs, convOwner, nextConv, messages, log, reply>>

\* POST /ai/embeddings: generateEmbeddings, then updateTokenUsage
GenerateEmbeddings(r, u, total, out) ==
  /\ rest[r].pc = "idle"
  /\ IF out = "ok"
       THEN /\ UpdateTokenUsage(u, total, RestSrc(r))
            /\ rest' = [rest EXCEPT ![r] = [IdleReq EXCEPT !.pc = "done",
                          !.user = u, !.status = 200]]
       ELSE /\ rest' = [rest EXCEPT ![r] = [IdleReq EXCEPT !.pc = "done",
                          !.user = u, !.status = 500,
                          !.message = "Internal server error"]]
            /\ UNCHANGED <<wsVars, jobs, usage, usageLog>>
  /\ UNCHANGED <<now, lookup, auth, wsVars, jobs, convOwner, nextConv, messages, log, reply>>

(* --------------------------- WebSocket gateway -------------------------- *)
\* n counts the chunks consumed. stopAt and stopRows are history fields: n and
\* the number of rows ever inserted when the socket's chat:stop was handled
\* during this run (-1: no chat:stop); consumed, the chunks the loop has taken
\* from the provider's stream; discRows and discIncs, the number of rows ever inserted and of
\* usage increments ever made when the socket disconnected during this run
\* (-1: no disconnect); given, the conversationId of the chat:start (NoConv:
\* none); during, the runs of the socket in progress when this run started;
\* startRows and startEvents, the number of rows ever inserted and of events
\* emitted to the socket by then
IdleStream == [pc |-> "idle", socket |-> "", user |-> NoUser, conv |-> NoConv,
               text |-> <<>>, history |-> <<>>, fullResponse |-> <<>>,
               finishReason |-> "", tokenCount |-> 0, n |-> 0, stopAt |-> -1,
               stopRows |-> -1, consumed |-> <<>>, discRows |-> -1,
               discIncs |-> -1, given |-> NoConv, during |-> {},
               startRows |-> 0, startEvents |-> 0]
StreamSrc(s) == [kind |-> "stream", id |-> s, run |-> 1]

\* (mutant) an emitter that hands the events over last-in first-out
EmitFirst(k, type, s, data) ==
  events' = [events EXCEPT ![k] =
               <<[type |-> type, src |-> s, data |-> data,
                  delivered |-> conn[k] = "open"]>> \o @]

\* client.emit(type, data): socket.io drops the packet of a closed socket
\* without an error (delivered); src is a history field naming the handler run
Emit(k, type, s, data) ==
  events' = [events EXCEPT ![k] =
               Append(@, [type |-> type, src |-> s, data |-> data,
                          delivered |-> conn[k] = "open"])]

\* the catch block: client.emit('chat:error', { message })
StreamFail(s, message) ==
  /\ st' = [st EXCEPT ![s].pc = "done"]
  /\ Emit(st[s].socket, "chat:error", {s}, [message |-> message])

\* (mutant) Math.floor in place of Math.ceil
EstimateTokensFloor(text, full) == (Len(text) + Len(full)) \div 4

\* Math.ceil((data.message.length + fullResponse.length) / 4)
EstimateTokens(text, full) == (Len(text) + Len(full) + 3) \div 4

\* the handler runs of a socket that have started and not returned
Running(k) == {s \in StreamIds : st[s].socket = k /\ st[s].pc \notin {"idle", "done"}}

\* chat:start up to the first query: get or create the conversation
ChatStart(s, k, u, c, text) ==
  /\ st[s].pc = "idle"
  /\ conn[k] = "open"
  /\ IF c = NoConv
       THEN /\ nextConv < MaxConv
            /\ nextConv' = nextConv + 1
            /\ convOwner' = [convOwner EXCEPT ![nextConv + 1] = u]
            /\ st' = [st EXCEPT ![s] = [IdleStream EXCEPT !.pc = "history",
                        !.socket = k, !.user = u, !.conv = nextConv + 1,
                        !.text = text, !.during = Running(k),
                        !.startRows = Len(log),
                        !.startEvents = Len(events[k])]]
            /\ Emit(k, "chat:conversation", {s}, [conversationId |-> nextConv + 1])
       ELSE /\ st' = [st EXCEPT ![s] = [IdleStream EXCEPT !.pc = "history",
                        !.socket = k, !.user = u, !.conv = c, !.text = text,
                        !.given = c, !.during = Running(k),
                        !.startRows = Len(log),
                        !.startEvents = Len(events[k])]]
            /\ UNCHANGED <<convOwner, nextConv, events>>
  /\ UNCHANGED <<now, lookup, auth, conn, messages, log, usage, usageLog, reply, rest, jobs>>

\* getConversationHistory(conversationId, data.userId, 10)
StreamHistory(s) ==
  /\ st[s].pc = "history"
  /\ IF FindFirst(convOwner, st[s].conv, st[s].user)
       THEN /\ st' = [st EXCEPT ![s].pc = "addUser",
                        ![s].history = GetConversationHistory(messages,
                                         st[s].conv, HistoryLimit)]
            /\ UNCHANGED events
       ELSE StreamFail(s, "Conversation not found")
  /\ UNCHANGED <<now, lookup, auth, conn, convOwner, nextConv, messages, log, usage, usageLog, reply,
                 rest, jobs>>

\* addMessage(USER), chat:user-message, history.push
StreamAddUser(s, out) ==
  /\ st[s].pc = "addUser"
  /\ IF CanAddMessage(st[s].conv, out)
       THEN /\ AddMessage(st[s].conv, "USER", st[s].text, NoTokens, StreamSrc(s))
            /\ st' = [st EXCEPT ![s].pc = "stream",
                        ![s].history = Append(@, [role |-> "user",
                                                  content |-> st[s].text])]
            /\ Emit(st[s].socket, "chat:user-message", {s},
                    [messageId |-> Len(log) + 1, content |-> st[s].text])
       ELSE /\ StreamFail(s, "store error")
            /\ UNCHANGED <<messages, log>>
  /\ UNCHANGED <<now, lookup, auth, conn, convOwner, nextConv, usage, usageLog, reply, rest, jobs>>

\* one iteration of `for await (const chunk of stream)` up to its first await
StreamChunk(s, chunk) ==
  /\ st[s].pc = "stream"
  /\ st[s].n < MaxChunks
  /\ LET full == IF chunk.content # <<>> THEN st[s].fullResponse \o chunk.content
                                          ELSE st[s].fullResponse
     IN  st' = [st EXCEPT ![s].n = @ + 1,
                  ![s].consumed = Append(@, chunk),
                  ![s].fullResponse = full,
                  ![s].finishReason = chunk.finishReason,
                  ![s].tokenCount = IF chunk.finishReason # ""
                                      THEN EstimateTokens(st[s].text, full) ELSE @,
                  ![s].pc = IF chunk.finishReason # "" THEN "addAssistant"
                                                       ELSE "stream"]
  /\ IF chunk.content # <<>>
       THEN Emit(st[s].socket, "chat:message", {s},
                 [content |-> chunk.content, isComplete |-> FALSE])
       ELSE UNCHANGED events
  /\ UNCHANGED <<now, lookup, auth, conn, convOwner, nextConv, messages, log, usage, usageLog, reply,
                 rest, jobs>>

\* the provider's stream is exhausted: the loop and the handler end
StreamExhausted(s) ==
  /\ st[s].pc = "stream"
  /\ st' = [st EXCEPT ![s].pc = "done"]
  /\ UNCHANGED <<now, lookup, auth, conn, convOwner, nextConv, messages, log, usage, usageLog, reply,
                 rest, events, jobs>>

\* the provider call or its stream rejects
StreamProviderError(s) ==
  /\ st[s].pc = "stream"
  /\ StreamFail(s, "provider error")
  /\ UNCHANGED <<now, lookup, auth, conn, convOwner, nextConv, messages, log, usage, usageLog, reply,
                 rest, jobs>>

\* addMessage(ASSISTANT, fullResponse, { tokens: tokenCount })
StreamAddAssistant(s, out) ==
  /\ st[s].pc = "addAssistant"
  /\ IF CanAddMessage(st[s].conv, out)
       THEN /\ AddMessage(st[s].conv, "ASSISTANT", st[s].fullResponse,
                          st[s].tokenCount, StreamSrc(s))
            /\ st' = [st EXCEPT ![s].pc = "usage"]
            /\ UNCHANGED events
       ELSE /\ StreamFail(s, "store error")
            /\ UNCHANGED <<messages, log>>
  /\ UNCHANGED <<now, lookup, auth, conn, convOwner, nextConv, usage, usageLog, reply, rest, jobs>>

\* updateTokenUsage(data.userId, tokenCount), chat:end, and on with the loop
StreamUsage(s, out) ==
  /\ st[s].pc = "usage"
  /\ IF out = "ok"
       THEN /\ UpdateTokenUsage(st[s].user, st[s].tokenCount, StreamSrc(s))
            /\ st' = [st EXCEPT ![s].pc = "stream"]
            /\ Emit(st[s].socket, "chat:end", {s},
                    [conversationId |-> st[s].conv,
                     totalTokens |-> st[s].tokenCount,
                     finishReason |-> st[s].finishReason])
       ELSE /\ StreamFail(s, "store error")
            /\ UNCHANGED <<usage, usageLog>>
  /\ UNCHANGED <<now, lookup, auth, conn, convOwner, nextConv, messages, log, reply, rest, jobs>>

\* handleConnection: logs the client id
HandleConnection(k) ==
  /\ conn[k] = "new"
  /\ conn' = [conn EXCEPT ![k] = "open"]
  /\ UNCHANGED <<now, lookup, auth, convOwner, nextConv, messages, log, usage, usageLog, reply,
                 rest, st, events, jobs>>

\* chat:stop: emits chat:stopped and nothing else. The event's src and the
\* runs' stopAt are history fields recording which runs were in progress
StopChat(k) ==
  /\ conn[k] = "open"
  /\ Running(k) # {}
  /\ Len(SelectSeq(events[k], LAMBDA e : e.type = "chat:stopped")) < MaxStops
  /\ Emit(k, "chat:stopped", Running(k), [message |-> "Chat stream stopped"])
  /\ st' = [s \in StreamIds |->
              IF s \in Running(k) /\ st[s].stopAt = -1
                THEN [st[s] EXCEPT !.stopAt = st[s].n, !.stopRows = Len(log)]
                ELSE st[s]]
  /\ UNCHANGED <<now, lookup, auth, conn, convOwner, nextConv, messages, log, usage, usageLog, reply,
                 rest, jobs>>

\* handleDisconnect: logs the client id and nothing else. discRows and discIncs
\* are history fields of the runs then in progress
HandleDisconnect(k) ==
  /\ conn[k] = "open"
  /\ conn' = [conn EXCEPT ![k] = "closed"]
  /\ st' = [s \in StreamIds |->
              IF s \in Running(k)
                THEN [st[s] EXCEPT !.discRows = Len(log),
                                   !.discIncs = Len(usageLog)]
                ELSE st[s]]
  /\ UNCHANGED <<now, lookup, auth, convOwner, nextConv, messages, log, usage, usageLog, reply,
                 rest, events, jobs>>

(* ------------------------------ AuthService ---------------------------- *)
\* jwtService.signAsync({ sub, email }, { secret, expiresIn }): an HS256 token
\* is a function of its payload, which is sub, email (one per user), iat (the
\* second of signing) and exp = iat + expiresIn; there is no jti
SignAsync(u, sec) == [sub |-> u, iat |-> sec]
\* a string that is not a token signed with the refresh secret
InvalidToken == [sub |-> NoUser, iat |-> -1]
NoToken == [sub |-> NoUser, iat |-> -2]
Tokens == [sub : Users, iat : 0..MaxSeconds] \cup {InvalidToken}
\* passport-jwt's verification of signature (and expiry: the 7 days of a token
\* lie beyond the clock's bound)
Verify(t) == t.sub \in Users

\* sec: the server clock in seconds; tokens: the refresh_tokens table; res: the
\* last response. History fields: issued, the refresh tokens ever returned;
\* rotated, those a successful refresh was made with; loggedOut, those a
\* successful logout was made with; res.known, whether the presented token had
\* been issued; res.wrote, whether the request changed the table
NoAuth == [sec |-> 0, tokens |-> {}, issued |-> {}, rotated |-> {},
           loggedOut |-> {},
           res |-> [op |-> "none", presented |-> NoToken, status |-> 0,
                    refreshToken |-> NoToken, known |-> FALSE, wrote |-> FALSE]]
AuthRes(op, t, status, new, wrote) ==
  [op |-> op, presented |-> t, status |-> status, refreshToken |-> new,
   known |-> t \in auth.issued, wrote |-> wrote]
\* prisma.refreshToken.findUnique({ where: { token } })
FindUnique(t) == \E row \in auth.tokens : row.token = t
NotAuth == <<convOwner, nextConv, messages, log, usage, usageLog, reply, rest,
             st, events, conn, jobs, now, lookup>>

\* a second passes on the server clock
TickSecond ==
  /\ auth.sec < MaxSeconds
  /\ auth' = [auth EXCEPT !.sec = @ + 1]
  /\ UNCHANGED NotAuth

\* login with valid credentials: generateTokens, then saveRefreshToken, whose
\* create rejects when the token is stored already (token is @unique)
Login(u) ==
  /\ LET t == SignAsync(u, auth.sec)
     IN  auth' = IF FindUnique(t)
                   THEN [auth EXCEPT !.res = AuthRes("login", NoToken, 500,
                                                     NoToken, FALSE)]
                   ELSE [auth EXCEPT
                           !.tokens = @ \cup {[token |-> t, userId |-> u]},
                           !.issued = @ \cup {t},
                           !.res = AuthRes("login", NoToken, 200, t, TRUE)]
  /\ UNCHANGED NotAuth

\* POST /auth/refresh: JwtRefreshStrategy.validate, then refreshTokens(userId,
\* refreshToken): generateTokens, delete the old token, saveRefreshToken
Refresh(t) ==
  /\ LET new == SignAsync(t.sub, auth.sec)
         kept == {row \in auth.tokens : row.token # t}
     IN  auth' =
           IF ~Verify(t) \/ ~FindUnique(t)
             THEN [auth EXCEPT !.res = AuthRes("refresh", t, 401, NoToken, FALSE)]
           ELSE IF \E row \in kept : row.token = new
             THEN [auth EXCEPT !.tokens = kept,
                               !.res = AuthRes("refresh", t, 500, NoToken, TRUE)]
           ELSE [auth EXCEPT
                   !.tokens = kept \cup {[token |-> new, userId |-> t.sub]},
                   !.issued = @ \cup {new},
                   !.rotated = @ \cup {t},
                   !.res = AuthRes("refresh", t, 200, new, TRUE)]
  /\ UNCHANGED NotAuth

\* logout(refreshToken): findUnique, then delete
Logout(t) ==
  /\ auth' =
       IF ~FindUnique(t)
         THEN [auth EXCEPT !.res = AuthRes("logout", t, 401, NoToken, FALSE)]
         ELSE [auth EXCEPT !.tokens = {row \in @ : row.token # t},
                           !.loggedOut = @ \cup {t},
                           !.res = AuthRes("logout", t, 200, NoToken, TRUE)]
  /\ UNCHANGED NotAuth

(* ------------------------- Bull queue and processor --------------------- *)
DefaultAttempts == 1    \* queue.add without options: Bull runs the job once
MaxAttempts == 3        \* queue.add(..., { attempts: 3, backoff: exponential })
JobAttempts == {DefaultAttempts, MaxAttempts}

\* run, returned, calls and errors are history fields: the handler runs
\* started, the runs that returned, the outcomes of the provider calls and the
\* errors the handler threw
NoJob == [state |-> "none", kind |-> "", user |-> NoUser, conv |-> NoConv,
          text |-> <<>>, attempts |-> 0, attemptsMade |-> 0, stalled |-> 0,
          pc |-> "", history |-> <<>>, response |-> ProviderError,
          progress |-> 0, failedReason |-> "", enqueued |-> "",
          run |-> 0, returned |-> 0, calls |-> <<>>, errors |-> <<>>]
JobSrc(j) == [kind |-> "job", id |-> j, run |-> jobs[j].run]

\* queueCompletion: aiQueue.add('generate-completion', data, opts); the caller
\* gets { jobId, status: 'queued' }
QueueCompletion(j, u, c, text, attempts) ==
  /\ jobs[j].state = "none"
  /\ jobs' = [jobs EXCEPT ![j] = [NoJob EXCEPT !.state = "waiting",
                !.kind = "completion", !.user = u, !.conv = c, !.text = text,
                !.attempts = attempts, !.enqueued = "queued"]]
  /\ UNCHANGED <<now, lookup, auth, convOwner, nextConv, messages, log, usage, usageLog, reply,
                 rest, wsVars>>

\* queueEmbeddings: aiQueue.add('generate-embeddings', { userId, text })
QueueEmbeddings(j, u, text) ==
  /\ jobs[j].state = "none"
  /\ jobs' = [jobs EXCEPT ![j] = [NoJob EXCEPT !.state = "waiting",
                !.kind = "embedding", !.user = u, !.text = text,
                !.attempts = DefaultAttempts, !.enqueued = "queued"]]
  /\ UNCHANGED <<now, lookup, auth, convOwner, nextConv, messages, log, usage, usageLog, reply,
                 rest, wsVars>>

\* a worker takes the job and calls its @Process handler
ProcessJob(j) ==
  /\ jobs[j].state = "waiting"
  /\ jobs' = [jobs EXCEPT ![j].state = "active", ![j].run = @ + 1,
                ![j].history = <<>>, ![j].response = ProviderError,
                ![j].pc = IF jobs[j].kind = "completion" THEN "history"
                                                         ELSE "embed"]
  /\ UNCHANGED <<now, lookup, auth, convOwner, nextConv, messages, log, usage, usageLog, reply,
                 rest, wsVars>>

\* (mutant) one attempt too few
RetryStateOneLess(attemptsMade, attempts) ==
  IF attemptsMade + 1 < attempts THEN "waiting" ELSE "failed"

\* (mutant) one attempt too many
RetryStateOneMore(attemptsMade, attempts) ==
  IF attemptsMade <= attempts THEN "waiting" ELSE "failed"

\* Bull's decision after the handler threw, attemptsMade already counted
RetryState(attemptsMade, attempts) ==
  IF attemptsMade < attempts THEN "waiting" ELSE "failed"

\* the catch block logs and rethrows whatever was thrown; Bull then retries the
\* job or fails it
Rethrow(j, err, call) ==
  [jobs[j] EXCEPT !.attemptsMade = @ + 1,
                  !.state = RetryState(jobs[j].attemptsMade + 1, jobs[j].attempts),
                  !.pc = "thrown",
                  !.failedReason = err,
                  !.errors = Append(@, err),
                  !.calls = @ \o call]

\* getConversationHistory(conversationId, userId, 10)
JobHistory(j) ==
  /\ jobs[j].state = "active" /\ jobs[j].pc = "history"
  /\ IF FindFirst(convOwner, jobs[j].conv, jobs[j].user)
       THEN jobs' = [jobs EXCEPT ![j].pc = "addUser",
                       ![j].history = GetConversationHistory(messages,
                                        jobs[j].conv, HistoryLimit)]
       ELSE jobs' = [jobs EXCEPT ![j] = Rethrow(j, "NotFoundException", <<>>)]
  /\ UNCHANGED <<now, lookup, auth, convOwner, nextConv, messages, log, usage, usageLog, reply,
                 rest, wsVars>>

\* addMessage(USER, message), history.push, job.progress(50)
JobAddUser(j, out) ==
  /\ jobs[j].state = "active" /\ jobs[j].pc = "addUser"
  /\ IF CanAddMessage(jobs[j].conv, out)
       THEN /\ AddMessage(jobs[j].conv, "USER", jobs[j].text, NoTokens, JobSrc(j))
            /\ jobs' = [jobs EXCEPT ![j].pc = "provider", ![j].progress = 50,
                          ![j].history = Append(@, [role |-> "user",
                                                    content |-> jobs[j].text])]
       ELSE /\ jobs' = [jobs EXCEPT ![j] = Rethrow(j, "StoreError", <<>>)]
            /\ UNCHANGED <<messages, log>>
  /\ UNCHANGED <<now, lookup, auth, convOwner, nextConv, usage, usageLog, reply, rest, wsVars>>

\* openaiService.generateCompletion(history, opts)
JobProvider(j, res) ==
  /\ jobs[j].state = "active" /\ jobs[j].pc = "provider"
  /\ IF res = ProviderError
       THEN jobs' = [jobs EXCEPT ![j] = Rethrow(j, "ProviderError", <<"error">>)]
       ELSE jobs' = [jobs EXCEPT ![j].pc = "addAssistant", ![j].response = res,
                       ![j].calls = Append(@, "ok")]
  /\ UNCHANGED <<now, lookup, auth, convOwner, nextConv, messages, log, usage, usageLog, reply,
                 rest, wsVars>>

\* addMessage(ASSISTANT, response.content ?? '', { tokens: response.tokens })
JobAddAssistant(j, out) ==
  /\ jobs[j].state = "active" /\ jobs[j].pc = "addAssistant"
  /\ IF CanAddMessage(jobs[j].conv, out)
       THEN /\ AddMessage(jobs[j].conv, "ASSISTANT", jobs[j].response.content,
                          jobs[j].response.total, JobSrc(j))
            /\ jobs' = [jobs EXCEPT ![j].pc = "usage"]
       ELSE /\ jobs' = [jobs EXCEPT ![j] = Rethrow(j, "StoreError", <<>>)]
            /\ UNCHANGED <<messages, log>>
  /\ UNCHANGED <<now, lookup, auth, convOwner, nextConv, usage, usageLog, reply, rest, wsVars>>

\* updateTokenUsage(userId, response.tokens), job.progress(100), return
JobUsage(j, out) ==
  /\ jobs[j].state = "active" /\ jobs[j].pc = "usage"
  /\ IF out = "ok"
       THEN /\ UpdateTokenUsage(jobs[j].user, jobs[j].response.total, JobSrc(j))
            /\ jobs' = [jobs EXCEPT ![j].pc = "return", ![j].progress = 100,
                          ![j].returned = @ + 1]
       ELSE /\ jobs' = [jobs EXCEPT ![j] = Rethrow(j, "StoreError", <<>>)]
            /\ UNCHANGED <<usage, usageLog>>
  /\ UNCHANGED <<now, lookup, auth, convOwner, nextConv, messages, log, reply, rest, wsVars>>

\* handleEmbeddings: openaiService.generateEmbeddings(text, model)
JobEmbed(j, total) ==
  /\ jobs[j].state = "active" /\ jobs[j].pc = "embed"
  /\ IF total = ProviderError.total
       THEN jobs' = [jobs EXCEPT ![j] = Rethrow(j, "ProviderError", <<"error">>)]
       ELSE jobs' = [jobs EXCEPT ![j].pc = "embedUsage",
                       ![j].response = [isNull |-> TRUE, content |-> <<>>,
                                        total |-> total],
                       ![j].calls = Append(@, "ok")]
  /\ UNCHANGED <<now, lookup, auth, convOwner, nextConv, messages, log, usage, usageLog, reply,
                 rest, wsVars>>

\* handleEmbeddings: updateTokenUsage(userId, result.tokens), return result
JobEmbedUsage(j, out) ==
  /\ jobs[j].state = "active" /\ jobs[j].pc = "embedUsage"
  /\ IF out = "ok"
       THEN /\ UpdateTokenUsage(jobs[j].user, jobs[j].response.total, JobSrc(j))
            /\ jobs' = [jobs EXCEPT ![j].pc = "return", ![j].returned = @ + 1]
       ELSE /\ jobs' = [jobs EXCEPT ![j] = Rethrow(j, "StoreError", <<>>)]
            /\ UNCHANGED <<usage, usageLog>>
  /\ UNCHANGED <<now, lookup, auth, convOwner, nextConv, messages, log, reply, rest, wsVars>>

\* the handler returned: Bull moves the job to completed
JobCompleted(j) ==
  /\ jobs[j].state = "active" /\ jobs[j].pc = "return"
  /\ jobs' = [jobs EXCEPT ![j].state = "completed", ![j].pc = "returned"]
  /\ UNCHANGED <<now, lookup, auth, convOwner, nextConv, messages, log, usage, usageLog, reply,
                 rest, wsVars>>

\* the worker died while the job was active: Bull finds the job stalled and
\* hands it out again (at-least-once delivery)
JobStalled(j) ==
  /\ jobs[j].state = "active"
  /\ jobs[j].stalled < MaxStalled
  /\ jobs' = [jobs EXCEPT ![j].state = "waiting", ![j].stalled = @ + 1,
                ![j].pc = "stalled"]
  /\ UNCHANGED <<now, lookup, auth, convOwner, nextConv, messages, log, usage, usageLog, reply,
                 rest, wsVars>>

(* ---------------------------- specifications ---------------------------- *)
Init ==
  /\ convOwner = [c \in ConvIds |-> NoUser]
  /\ nextConv = 0
  /\ messages = <<>>
  /\ log = <<>>
  /\ usage = [u \in Users |-> 0]
  /\ usageLog = <<>>
  /\ reply = NoReply
  /\ rest = [r \in ReqIds |-> IdleReq]
  /\ st = [s \in StreamIds |-> IdleStream]
  /\ events = [k \in Sockets |-> <<>>]
  /\ conn = [k \in Sockets |-> "new"]
  /\ jobs = [j \in JobIds |-> NoJob]
  /\ now = 0
  /\ lookup = NoLookup
  /\ auth = NoAuth

\* the conversation endpoints, with one chat request filling the tables
NextStore ==
  \/ \E u \in Users : CreateConversation(u)
  \/ \E u \in Users, c \in ConvIds : GetConversation(u, c)
  \/ \E u \in Users, c \in ConvIds : GetMessages(u, c)
  \/ \E u \in Users, c \in ConvIds : DeleteConversation(u, c)
  \/ \E u \in Users, c \in ConvIds \cup {NoConv}, t \in UserTexts : Chat(1, u, c, t)
  \/ ChatHistory(1)
  \/ \E out \in Outcomes : ChatAddUser(1, out)
  \/ \E res \in Completions \cup {ProviderError} : ChatProvider(1, res)
  \/ \E out \in Outcomes : ChatAddAssistant(1, out)
  \/ \E out \in Outcomes : ChatUsage(1, out)

SpecStore == Init /\ [][NextStore]_vars

\* concurrent chat and embedding requests, and deletions by the owner
NextRest ==
  \/ \E u \in Users, c \in ConvIds : DeleteConversation(u, c)
  \/ \E r \in ReqIds, u \in Users, c \in ConvIds \cup {NoConv}, t \in UserTexts :
       Chat(r, u, c, t)
  \/ \E r \in ReqIds : ChatHistory(r)
  \/ \E r \in ReqIds, out \in Outcomes : ChatAddUser(r, out)
  \/ \E r \in ReqIds, res \in Completions \cup {ProviderError} : ChatProvider(r, res)
  \/ \E r \in ReqIds, out \in Outcomes : ChatAddAssistant(r, out)
  \/ \E r \in ReqIds, out \in Outcomes : ChatUsage(r, out)
  \/ \E r \in ReqIds, u \in Users, t \in EmbedTotals, out \in Outcomes :
       GenerateEmbeddings(r, u, t, out)

SpecRest == Init /\ [][NextRest]_vars

\* history lookups with any limit while chat requests fill the conversations
NextHistory ==
  \/ \E u \in Users : CreateConversation(u)
  \/ \E r \in ReqIds, u \in ModeUsers, c \in ConvIds, t \in UserTexts :
       Chat(r, u, c, t)
  \/ \E r \in ReqIds : ChatHistory(r)
  \/ \E r \in ReqIds, out \in StoreWorks : ChatAddUser(r, out)
  \/ \E r \in ReqIds, res \in Completions : ChatProvider(r, res)
  \/ \E r \in ReqIds, out \in StoreWorks : ChatAddAssistant(r, out)
  \/ \E r \in ReqIds, out \in StoreWorks : ChatUsage(r, out)
  \/ \E u \in Users, c \in ConvIds, limit \in Limits :
       CallGetConversationHistory(u, c, limit)

SpecHistory == Init /\ [][NextHistory]_vars

\* concurrent chat requests while the database clock advances
NextClock ==
  \/ Tick
  \/ \E r \in ReqIds, u \in Users, c \in ConvIds \cup {NoConv}, t \in UserTexts :
       Chat(r, u, c, t)
  \/ \E r \in ReqIds : ChatHistory(r)
  \/ \E r \in ReqIds, out \in Outcomes : ChatAddUser(r, out)
  \/ \E r \in ReqIds, res \in Completions \cup {ProviderError} : ChatProvider(r, res)
  \/ \E r \in ReqIds, out \in Outcomes : ChatAddAssistant(r, out)
  \/ \E r \in ReqIds, out \in Outcomes : ChatUsage(r, out)

SpecClock == Init /\ [][NextClock]_vars

\* a socket's connection with one streaming session
NextStream ==
  \/ \E k \in Sockets, u \in Users, c \in ConvIds \cup {NoConv}, t \in StreamTexts :
       ChatStart(1, k, u, c, t)
  \/ \E s \in StreamIds : StreamHistory(s)
  \/ \E s \in StreamIds, out \in Outcomes : StreamAddUser(s, out)
  \/ \E s \in StreamIds, chunk \in Chunks : StreamChunk(s, chunk)
  \/ \E s \in StreamIds : StreamExhausted(s)
  \/ \E s \in StreamIds : StreamProviderError(s)
  \/ \E s \in StreamIds, out \in Outcomes : StreamAddAssistant(s, out)
  \/ \E s \in StreamIds, out \in Outcomes : StreamUsage(s, out)
  \/ \E k \in Sockets : StopChat(k)
  \/ \E k \in Sockets : HandleConnection(k)
  \/ \E k \in Sockets : HandleDisconnect(k)

SpecStream == Init /\ [][NextStream]_vars

\* the queue, its workers and the processor
JobStep(j) ==
  \/ ProcessJob(j)
  \/ JobHistory(j)
  \/ \E out \in Outcomes : JobAddUser(j, out)
  \/ \E res \in Completions \cup {ProviderError} : JobProvider(j, res)
  \/ \E out \in Outcomes : JobAddAssistant(j, out)
  \/ \E out \in Outcomes : JobUsage(j, out)
  \/ \E total \in EmbedTotals \cup {ProviderError.total} : JobEmbed(j, total)
  \/ \E out \in Outcomes : JobEmbedUsage(j, out)
  \/ JobCompleted(j)

NextJob ==
  \/ \E u \in Users : CreateConversation(u)
  \/ \E j \in JobIds, u \in Users, c \in ConvIds, t \in UserTexts,
        a \in JobAttempts : QueueCompletion(j, u, c, t, a)
  \/ \E j \in JobIds, u \in Users, t \in UserTexts : QueueEmbeddings(j, u, t)
  \/ \E j \in JobIds : JobStep(j)
  \/ \E j \in JobIds : JobStalled(j)

SpecJob == Init /\ [][NextJob]_vars

\* a worker that took a job runs its handler on, and the queue hands waiting
\* jobs to its worker
FairSpecJob == SpecJob /\ \A j \in JobIds : WF_vars(JobStep(j))

\* one turn in each of the three modes, a chat request, a stream and a
\* completion job of one user on one conversation, where a handler starts while
\* no other is running and the store fails at the USER append only
RestBusy == \E r \in ReqIds : rest[r].pc \notin {"idle", "done"}
StreamBusy == \E s \in StreamIds : st[s].pc \notin {"idle", "done"}
JobBusy == \E j \in JobIds : jobs[j].state = "active"
NextModes ==
  \/ \E u \in ModeUsers : CreateConversation(u)
  \/ /\ ~StreamBusy /\ ~JobBusy
     /\ \E u \in ModeUsers, c \in ModeConvs, t \in UserTexts : Chat(1, u, c, t)
  \/ ChatHistory(1)
  \/ \E out \in Outcomes : ChatAddUser(1, out)
  \/ \E res \in Completions \cup {ProviderError} : ChatProvider(1, res)
  \/ \E out \in StoreWorks : ChatAddAssistant(1, out)
  \/ \E out \in StoreWorks : ChatUsage(1, out)
  \/ \E k \in Sockets : HandleConnection(k)
  \/ /\ ~RestBusy /\ ~JobBusy
     /\ \E k \in Sockets, u \in ModeUsers, c \in ModeConvs, t \in UserTexts :
          ChatStart(1, k, u, c, t)
  \/ StreamHistory(1)
  \/ \E out \in Outcomes : StreamAddUser(1, out)
  \/ \E chunk \in ModeChunks : StreamChunk(1, chunk)
  \/ StreamExhausted(1)
  \/ StreamProviderError(1)
  \/ \E out \in StoreWorks : StreamAddAssistant(1, out)
  \/ \E out \in StoreWorks : StreamUsage(1, out)
  \/ \E u \in ModeUsers, c \in ModeConvs, t \in UserTexts, a \in JobAttempts :
       QueueCompletion(1, u, c, t, a)
  \/ /\ ~RestBusy /\ ~StreamBusy
     /\ ProcessJob(1)
  \/ JobHistory(1)
  \/ \E out \in Outcomes : JobAddUser(1, out)
  \/ \E res \in Completions \cup {ProviderError} : JobProvider(1, res)
  \/ \E out \in StoreWorks : JobAddAssistant(1, out)
  \/ \E out \in StoreWorks : JobUsage(1, out)
  \/ JobCompleted(1)

SpecModes == Init /\ [][NextModes]_vars

\* two chat:start messages of one user on one socket, each without
\* conversationId, while the store and the provider work
PlainChunks == {c \in ModeChunks : c.content # <<"b">>}
NextTwoStreams ==
  \/ \E k \in Sockets : HandleConnection(k)
  \/ \E s \in StreamIds, k \in Sockets, u \in ModeUsers, t \in UserTexts :
       ChatStart(s, k, u, NoConv, t)
  \/ \E s \in StreamIds : StreamHistory(s)
  \/ \E s \in StreamIds, out \in StoreWorks : StreamAddUser(s, out)
  \/ \E s \in StreamIds, chunk \in PlainChunks : StreamChunk(s, chunk)
  \/ \E s \in StreamIds : StreamExhausted(s)
  \/ \E s \in StreamIds, out \in StoreWorks : StreamAddAssistant(s, out)
  \/ \E s \in StreamIds, out \in StoreWorks : StreamUsage(s, out)

SpecTwoStreams == Init /\ [][NextTwoStreams]_vars

\* a stream and a completion job of one user side by side, while the store
\* works
NextUsage ==
  \/ \E u \in ModeUsers : CreateConversation(u)
  \/ \E k \in Sockets : HandleConnection(k)
  \/ \E k \in Sockets, u \in ModeUsers, c \in ModeConvs, t \in UserTexts :
       ChatStart(1, k, u, c, t)
  \/ StreamHistory(1)
  \/ \E out \in StoreWorks : StreamAddUser(1, out)
  \/ \E chunk \in PlainChunks : StreamChunk(1, chunk)
  \/ StreamExhausted(1)
  \/ \E out \in StoreWorks : StreamAddAssistant(1, out)
  \/ \E out \in StoreWorks : StreamUsage(1, out)
  \/ \E u \in ModeUsers, c \in ModeConvs, t \in UserTexts, a \in JobAttempts :
       QueueCompletion(1, u, c, t, a)
  \/ ProcessJob(1)
  \/ JobHistory(1)
  \/ \E out \in StoreWorks : JobAddUser(1, out)
  \/ \E res \in Completions \cup {ProviderError} : JobProvider(1, res)
  \/ \E out \in StoreWorks : JobAddAssistant(1, out)
  \/ \E out \in StoreWorks : JobUsage(1, out)
  \/ JobCompleted(1)

SpecUsage == Init /\ [][NextUsage]_vars

\* a streaming session waiting for the provider's stream. The handler's own
\* steps are fair; whether and when the upstream yields the next chunk, ends
\* the stream or fails is up to the upstream
HandlerStep(s) ==
  \/ StreamHistory(s)
  \/ \E out \in Outcomes : StreamAddUser(s, out)
  \/ \E out \in Outcomes : StreamAddAssistant(s, out)
  \/ \E out \in Outcomes : StreamUsage(s, out)
UpstreamStep(s) ==
  \/ \E chunk \in ModeChunks : StreamChunk(s, chunk)
  \/ StreamExhausted(s)
  \/ StreamProviderError(s)
NextStall ==
  \/ \E k \in Sockets : HandleConnection(k)
  \/ \E k \in Sockets, u \in Users, c \in ConvIds \cup {NoConv}, t \in UserTexts :
       ChatStart(1, k, u, c, t)
  \/ HandlerStep(1)
  \/ UpstreamStep(1)

SpecStall == Init /\ [][NextStall]_vars
FairSpecStall == SpecStall /\ WF_vars(HandlerStep(1))

\* one request, one stream and one job of either user, on any conversation,
\* started one at a time, while conversations are created and deleted
FinishingChunks == {c \in Chunks : c.content = <<>> /\ c.finishReason # ""}
TextCompletions == {c \in Completions : ~c.isNull}
NextOwner ==
  \/ \E u \in Users : CreateConversation(u)
  \/ \E c \in ConvIds : convOwner[c] # NoUser /\ DeleteConversation(convOwner[c], c)
  \/ /\ ~StreamBusy /\ ~JobBusy
     /\ \E u \in Users, c \in ConvIds \cup {NoConv}, t \in UserTexts :
          Chat(1, u, c, t)
  \/ ChatHistory(1)
  \/ \E out \in StoreWorks : ChatAddUser(1, out)
  \/ \E res \in TextCompletions : ChatProvider(1, res)
  \/ \E out \in StoreWorks : ChatAddAssistant(1, out)
  \/ \E out \in StoreWorks : ChatUsage(1, out)
  \/ \E k \in Sockets : HandleConnection(k)
  \/ /\ ~RestBusy /\ ~JobBusy
     /\ \E k \in Sockets, u \in Users, c \in ConvIds \cup {NoConv},
           t \in UserTexts : ChatStart(1, k, u, c, t)
  \/ StreamHistory(1)
  \/ \E out \in StoreWorks : StreamAddUser(1, out)
  \/ \E chunk \in FinishingChunks : StreamChunk(1, chunk)
  \/ StreamExhausted(1)
  \/ \E out \in StoreWorks : StreamAddAssistant(1, out)
  \/ \E out \in StoreWorks : StreamUsage(1, out)
  \/ \E u \in Users, c \in ConvIds, t \in UserTexts :
       QueueCompletion(1, u, c, t, DefaultAttempts)
  \/ /\ ~RestBusy /\ ~StreamBusy
     /\ ProcessJob(1)
  \/ JobHistory(1)
  \/ \E out \in StoreWorks : JobAddUser(1, out)
  \/ \E res \in TextCompletions : JobProvider(1, res)
  \/ \E out \in StoreWorks : JobAddAssistant(1, out)
  \/ \E out \in StoreWorks : JobUsage(1, out)
  \/ JobCompleted(1)

SpecOwner == Init /\ [][NextOwner]_vars

\* logins, refreshes and logouts, handled one after another
NextAuth ==
  \/ TickSecond
  \/ \E u \in Users : Login(u)
  \/ \E t \in Tokens : Refresh(t)
  \/ \E t \in Tokens : Logout(t)

SpecAuth == Init /\ [][NextAuth]_vars

(* -------------------------------- claims -------------------------------- *)
\* the usage increments of a handler run
IncrementsOf(src) == SelectSeq(usageLog, LAMBDA e : e.src = src)

\* the socket of run s was sent chat:stopped while s was in progress and before
\* any chat:end of s
StoppedBeforeEnd(s) ==
  /\ st[s].pc # "idle"
  /\ LET ev == events[st[s].socket]
     IN  \E i \in DOMAIN ev :
           /\ ev[i].type = "chat:stopped" /\ s \in ev[i].src
           /\ \A j \in 1..(i - 1) : ~(ev[j].type = "chat:end" /\ ev[j].src = {s})

\* C2: a chat:stop sent while the stream is in progress (before chat:end) means
\* that no ASSISTANT message of that turn is persisted afterwards and that the
\* usage counter is not incremented for the turn.
C2_StopPersistsNothing ==
  \A s \in StreamIds :
    StoppedBeforeEnd(s) =>
      /\ \A i \in DOMAIN log :
           (log[i].src = StreamSrc(s) /\ log[i].role = "ASSISTANT")
             => i <= st[s].stopRows
      /\ IncrementsOf(StreamSrc(s)) = <<>>

\* C3: chat:start followed by chat:stop before any chat:end yields chat:stopped,
\* no chat:end of that stream follows the chat:stopped, and the USER message of
\* the turn stays in the conversation.
C3_NoEndAfterStopped ==
  \A s \in StreamIds :
    StoppedBeforeEnd(s) =>
      LET ev == events[st[s].socket]
      IN  /\ \A i, j \in DOMAIN ev :
               (i < j /\ ev[i].type = "chat:stopped" /\ s \in ev[i].src)
                 => ~(ev[j].type = "chat:end" /\ ev[j].src = {s})
          /\ \A i \in DOMAIN log :
               (log[i].src = StreamSrc(s) /\ log[i].role = "USER")
                 => \E m \in DOMAIN messages : messages[m] = log[i]

\* C4: once chat:stop is handled the provider stream of the connection is
\* aborted: no further chunk is consumed and no further chat:message is emitted
\* for that stream.
C4_StopCancelsProvider ==
  \A s \in StreamIds :
    st[s].stopAt >= 0 =>
      /\ st[s].n = st[s].stopAt
      /\ LET ev == events[st[s].socket]
         IN  \A i, j \in DOMAIN ev :
               (i < j /\ ev[i].type = "chat:stopped" /\ s \in ev[i].src)
                 => ~(ev[j].type = "chat:message" /\ ev[j].src = {s})

\* the rows and increments of all runs of job j
JobRows(j, role) ==
  SelectSeq(log, LAMBDA m : m.src.kind = "job" /\ m.src.id = j /\ m.role = role)
JobIncrements(j) ==
  SelectSeq(usageLog, LAMBDA e : e.src.kind = "job" /\ e.src.id = j)

RECURSIVE SumTokens(_)
SumTokens(rows) ==
  IF rows = <<>> THEN 0 ELSE Head(rows).tokens + SumTokens(Tail(rows))

\* C1: each user's totalTokensUsed equals the sum of tokenCount over all
\* ASSISTANT messages ever persisted in that user's conversations.
C1_UsageEqualsAssistantTokens ==
  \A u \in Users :
    usage[u] = SumTokens(SelectSeq(log, LAMBDA m : m.role = "ASSISTANT"
                                                   /\ m.owner = u))

\* C5: when the handler of one job id has run to its end twice, the job has
\* exactly one ASSISTANT message (a completion job) and exactly one usage
\* increment.
C5_ReplayIdempotent ==
  \A j \in JobIds :
    jobs[j].returned >= 2 =>
      /\ Len(JobIncrements(j)) = 1
      /\ jobs[j].kind = "completion" => Len(JobRows(j, "ASSISTANT")) = 1

\* C6: a completion job queued with three attempts is not failed by its first
\* two ProviderErrors, and when its provider calls went error, error, ok and
\* nothing else was thrown, it ends completed with exactly one ASSISTANT message
\* and exactly one usage increment.
C6_RetryThenCompleted ==
  \A j \in JobIds :
    jobs[j].kind = "completion" =>
      /\ (jobs[j].attempts = MaxAttempts
          /\ jobs[j].errors \in {<<"ProviderError">>,
                                 <<"ProviderError", "ProviderError">>})
           => jobs[j].state # "failed"
      /\ (jobs[j].calls = <<"error", "error", "ok">>
          /\ jobs[j].errors = <<"ProviderError", "ProviderError">>
          /\ jobs[j].state \in {"completed", "failed"})
           => /\ jobs[j].state = "completed"
              /\ Len(JobRows(j, "ASSISTANT")) = 1
              /\ Len(JobIncrements(j)) = 1

\* a job completed on its third provider call after two ProviderErrors
C6_Witness ==
  \E j \in JobIds :
    /\ jobs[j].calls = <<"error", "error", "ok">>
    /\ jobs[j].errors = <<"ProviderError", "ProviderError">>
    /\ jobs[j].state = "completed"

\* C7: over all attempts of one completion job its user message is appended at
\* most once.
C7_UserMessageOnce ==
  \A j \in JobIds : Len(JobRows(j, "USER")) <= 1

\* C8: an error other than ProviderError ends the job: it is the last error of
\* the job and the job is failed, never waiting for another attempt.
C8_OnlyProviderErrorRetried ==
  \A j \in JobIds :
    \A i \in DOMAIN jobs[j].errors :
      jobs[j].errors[i] # "ProviderError"
        => (i = Len(jobs[j].errors) /\ jobs[j].state = "failed")

\* the attempts of a job stay within its attempts option, a failed job has used
\* them all and carries its failedReason, and a job whose every attempt threw
\* ProviderError is failed
C9_BoundedAttempts ==
  \A j \in JobIds :
    /\ jobs[j].attempts <= MaxAttempts
    /\ jobs[j].run - jobs[j].stalled <= jobs[j].attempts
    /\ jobs[j].state = "failed"
         => (Len(jobs[j].errors) = jobs[j].attempts
             /\ jobs[j].failedReason # "" /\ jobs[j].enqueued = "queued")
    /\ (jobs[j].state # "none" /\ Len(jobs[j].errors) = jobs[j].attempts
        /\ \A i \in DOMAIN jobs[j].errors : jobs[j].errors[i] = "ProviderError")
         => jobs[j].state = "failed"

ConvOps == {"getConversation", "getMessages", "deleteConversation"}

\* C10: getConversation, getMessages, deleteConversation and the history lookup
\* answer a requester who does not own the conversation id with one and the same
\* NotFound response, a function of the request alone, and leave the store
\* unchanged, whether no such conversation exists or another user owns it.
C10_NotFoundIndistinguishable ==
  [][ /\ (reply' # reply /\ reply'.op \in ConvOps
           /\ convOwner[reply'.conv] # reply'.user)
        => (reply' = NotFoundReply(reply'.op, reply'.user, reply'.conv)
            /\ UNCHANGED store)
      /\ \A r \in ReqIds :
           (rest[r].pc = "history" /\ rest'[r].pc # "history"
            /\ convOwner[rest[r].conv] # rest[r].user)
           => (rest'[r] = [rest[r] EXCEPT !.pc = "done", !.status = 404,
                                         !.message = "Conversation not found"]
               /\ UNCHANGED store)
    ]_vars

\* a requester was answered NotFound for a conversation that exists, holds
\* messages and belongs to another user
C10_Witness ==
  /\ reply.op \in ConvOps
  /\ reply.status = 404
  /\ convOwner[reply.conv] \notin {NoUser, reply.user}
  /\ Len(FindMany(messages, reply.conv)) > 0

\* C11: within a conversation the createdAt of the messages is strictly
\* increasing in insertion order, so that ordering by createdAt is exactly the
\* insertion order, also for concurrent writers and within one clock tick.
C11_CreatedAtStrictlyIncreasing ==
  \A i, j \in DOMAIN messages :
    (i < j /\ messages[i].conv = messages[j].conv)
      => messages[i].createdAt < messages[j].createdAt

\* C12: turns on one conversation are serialized: the context a chat request
\* sends to the provider holds every message appended to the conversation
\* before the request's own user message (within the history limit), followed
\* by that user message.
C12_ContextHasEarlierMessages ==
  \A r \in ReqIds : \A i \in DOMAIN log :
    (rest[r].pc = "provider" /\ log[i].src = RestSrc(r) /\ log[i].role = "USER")
      => rest[r].history =
           Append(GetConversationHistory(SubSeq(log, 1, i - 1), rest[r].conv,
                                         HistoryLimit),
                  [role |-> "user", content |-> rest[r].text])

\* the rows a handler run inserted with the given role
RowsOf(src, role) == SelectSeq(log, LAMBDA m : m.src = src /\ m.role = role)

\* C13: when the provider's completion call fails on the synchronous path, the
\* request fails with that error, the USER message of the turn stays persisted,
\* no ASSISTANT message is written and the user's usage is unchanged.
C13_ProviderFailureKeepsUserOnly ==
  /\ [](\A r \in ReqIds :
          (rest[r].pc = "done" /\ rest[r].thrown = "ProviderError")
            => /\ rest[r].status = 500
               /\ Len(RowsOf(RestSrc(r), "USER")) = 1
               /\ \/ \E i \in DOMAIN messages :
                        /\ messages[i] = RowsOf(RestSrc(r), "USER")[1]
                        /\ messages[i].content = rest[r].text
                  \/ convOwner[rest[r].conv] = NoUser
               /\ RowsOf(RestSrc(r), "ASSISTANT") = <<>>
               /\ IncrementsOf(RestSrc(r)) = <<>>)
  /\ [][\A r \in ReqIds :
          (rest[r].pc = "provider" /\ rest'[r].pc = "done")
            => /\ rest'[r].thrown = "ProviderError"
               /\ UNCHANGED <<convOwner, nextConv, messages, log, usage,
                              usageLog>>]_vars

\* a chat request failed at the provider call while its USER message is in the
\* conversation, after another request's turn on that conversation completed
C13_Witness ==
  \E r \in ReqIds :
    /\ rest[r].pc = "done" /\ rest[r].thrown = "ProviderError"
    /\ \E i \in DOMAIN messages :
         messages[i].src = RestSrc(r) /\ messages[i].role = "USER"
    /\ \E q \in ReqIds \ {r} :
         /\ rest[q].conv = rest[r].conv /\ rest[q].status = 200
         /\ usage[rest[q].user] > 0

\* the conversation holds the USER message a handler run appended
HoldsUserMessage(src, c, text) ==
  \E i \in DOMAIN messages :
    /\ messages[i].src = src /\ messages[i].role = "USER"
    /\ messages[i].conv = c /\ messages[i].content = text

\* C14: in all three modes (synchronous, streaming, queued) the provider is
\* invoked only after the USER message of that turn has been appended to the
\* conversation.
C14_UserAppendedBeforeProvider ==
  /\ \A r \in ReqIds :
       rest[r].pc = "provider"
         => HoldsUserMessage(RestSrc(r), rest[r].conv, rest[r].text)
  /\ \A s \in StreamIds :
       st[s].pc = "stream"
         => HoldsUserMessage(StreamSrc(s), st[s].conv, st[s].text)
  /\ \A j \in JobIds :
       (jobs[j].state = "active" /\ jobs[j].pc = "provider")
         => HoldsUserMessage(JobSrc(j), jobs[j].conv, jobs[j].text)

\* a retried job is about to call the provider again, after a chat request and
\* a stream on the same conversation called it
C14_Witness ==
  /\ jobs[1].state = "active" /\ jobs[1].pc = "provider" /\ jobs[1].run = 2
  /\ rest[1].status = 200 /\ rest[1].conv = jobs[1].conv
  /\ st[1].conv = jobs[1].conv
  /\ \E i \in DOMAIN events[st[1].socket] :
       events[st[1].socket][i].type = "chat:end"

\* what a handler run emitted to its socket
StreamEvents(s) ==
  IF st[s].pc = "idle" THEN <<>>
  ELSE SelectSeq(events[st[s].socket],
                 LAMBDA e : e.src = {s} /\ e.type # "chat:stopped")
EventsOfType(s, type) == SelectSeq(StreamEvents(s), LAMBDA e : e.type = type)

\* the events of a run up to its first chat:end
ToFirstEnd(s) ==
  LET ev == StreamEvents(s)
      end == CHOOSE i \in DOMAIN ev :
               /\ ev[i].type = "chat:end"
               /\ \A j \in 1..(i - 1) : ev[j].type # "chat:end"
  IN  SubSeq(ev, 1, end)

\* the chunks a run consumed up to the first that carries a finishReason
ToFirstFinish(s) ==
  LET cs == st[s].consumed
      fin == CHOOSE i \in DOMAIN cs :
               /\ cs[i].finishReason # ""
               /\ \A j \in 1..(i - 1) : cs[j].finishReason = ""
  IN  SubSeq(cs, 1, fin)

RECURSIVE Accumulate(_)
Accumulate(cs) ==
  IF cs = <<>> THEN <<>> ELSE cs[1].content \o Accumulate(Tail(cs))

\* C16: for each completing stream, whatever chunks the provider yields (also
\* chunks after, or more than one chunk carrying, a finishReason), exactly one
\* ASSISTANT message holding the whole accumulated content is persisted, usage
\* is incremented exactly once and exactly one chat:end is emitted.
C16_OneAssistantOneIncrementOneEnd ==
  \A s \in StreamIds :
    EventsOfType(s, "chat:end") # <<>>
      => /\ Len(RowsOf(StreamSrc(s), "ASSISTANT")) = 1
         /\ RowsOf(StreamSrc(s), "ASSISTANT")[1].content
              = Accumulate(ToFirstFinish(s))
         /\ Len(IncrementsOf(StreamSrc(s))) = 1
         /\ Len(EventsOfType(s, "chat:end")) = 1

\* C17: whenever a streaming turn ends with chat:error (provider error, store
\* error including a failure of the usage increment, transport error), no
\* ASSISTANT message of that turn is persisted and usage is unchanged.
C17_ErrorPersistsNothing ==
  \A s \in StreamIds :
    EventsOfType(s, "chat:error") # <<>>
      => /\ RowsOf(StreamSrc(s), "ASSISTANT") = <<>>
         /\ IncrementsOf(StreamSrc(s)) = <<>>

\* C18: when the socket disconnects while a stream is in progress, the session
\* is destroyed and generation stops: after the disconnect no ASSISTANT message
\* of that stream is persisted and usage is not incremented for it.
C18_DisconnectStopsStream ==
  \A s \in StreamIds :
    st[s].discRows # -1
      => /\ \A i \in DOMAIN log :
              (log[i].src = StreamSrc(s) /\ log[i].role = "ASSISTANT")
                => i <= st[s].discRows
         /\ \A i \in DOMAIN usageLog :
              usageLog[i].src = StreamSrc(s) => i <= st[s].discIncs

\* C19: at most one stream is active per connection: a chat:start received
\* while a stream is in progress stops that stream before the new one starts,
\* so that the earlier stream persists no ASSISTANT message and emits no
\* further chat:message or chat:end, and the chunks of two streams are never
\* interleaved.
C19_OneStreamPerConnection ==
  \A s \in StreamIds : \A q \in st[s].during :
    /\ \A i \in DOMAIN log :
         (log[i].src = StreamSrc(q) /\ log[i].role = "ASSISTANT")
           => i <= st[s].startRows
    /\ \A i \in DOMAIN events[st[s].socket] :
         (/\ events[st[s].socket][i].src = {q}
          /\ events[st[s].socket][i].type \in {"chat:message", "chat:end"})
           => i <= st[s].startEvents

\* the contents of the chat:message events of a run, and the delta.content of
\* the chunks it consumed
MessageContents(s) ==
  [i \in 1..Len(EventsOfType(s, "chat:message")) |->
     EventsOfType(s, "chat:message")[i].data.content]
ConsumedDeltas(s) ==
  [i \in 1..Len(st[s].consumed) |-> st[s].consumed[i].content]

LastN(s, n) == IF n >= Len(s) THEN s ELSE SubSeq(s, Len(s) - n + 1, Len(s))

\* C21: for a conversation the requester owns and every limit >= 0,
\* getConversationHistory returns at most limit entries: exactly the limit most
\* recently appended messages (all of them when there are fewer), oldest first.
C21_HistoryIsLastLimit ==
  lookup.found
    => /\ Len(lookup.entries) <= lookup.limit
       /\ lookup.entries =
            [i \in 1..Len(LastN(lookup.rows, lookup.limit)) |->
               [role |-> ToLowerCase(LastN(lookup.rows, lookup.limit)[i].role),
                content |-> LastN(lookup.rows, lookup.limit)[i].content]]

\* C22: usage increments are atomic: when completions of one user finish
\* side by side (one streaming, one queued), no update is lost, and the counter
\* equals its initial value plus the sum of all increment amounts under every
\* interleaving.
C22_NoLostIncrement ==
  \A u \in Users :
    usage[u] = SumTokens(SelectSeq(usageLog, LAMBDA e : e.user = u))

\* a stream and a job have both incremented the usage of one user, the job
\* between two increments of the stream
C22_Witness ==
  \E i, j, k \in DOMAIN usageLog :
    /\ i < j /\ j < k
    /\ usageLog[i].src.kind = "stream" /\ usageLog[j].src.kind = "job"
    /\ usageLog[k].src.kind = "stream"
    /\ usageLog[i].user = usageLog[j].user
    /\ usageLog[i].tokens > 0 /\ usageLog[j].tokens > 0

\* what a handler run left in the store: the rows it inserted, in order, and
\* the amounts it added to the usage counter
Effect(src) ==
  LET rows == SelectSeq(log, LAMBDA m : m.src = src)
      incs == IncrementsOf(src)
  IN  [rows |-> [i \in 1..Len(rows) |->
                   [role |-> rows[i].role, content |-> rows[i].content,
                    tokens |-> rows[i].tokens]],
       incs |-> [i \in 1..Len(incs) |-> incs[i].tokens]]

\* a turn that succeeded at its first run, in each mode
RestOk(r) == rest[r].pc = "done" /\ rest[r].status = 200 /\ rest[r].conv # NoConv
StreamOk(s) ==
  /\ st[s].pc = "done"
  /\ Len(EventsOfType(s, "chat:end")) = 1
  /\ EventsOfType(s, "chat:error") = <<>>
JobOk(j) ==
  jobs[j].state = "completed" /\ jobs[j].kind = "completion" /\ jobs[j].run = 1

\* a turn appended USER, then ASSISTANT, and incremented usage once
OneTurn(src) ==
  /\ Len(Effect(src).rows) = 2
  /\ Effect(src).rows[1].role = "USER"
  /\ Effect(src).rows[2].role = "ASSISTANT"
  /\ Len(Effect(src).incs) = 1

\* C23: a successful turn performs the same store and accounting operations in
\* all three modes: append USER, call the provider, append ASSISTANT, increment
\* usage, each once and in that order; for the same message and the same
\* provider response the three modes leave the same messages and the same
\* usage.
C23_SameEffectInAllModes ==
  \A r \in ReqIds, s \in StreamIds, j \in JobIds :
    /\ RestOk(r) => OneTurn(RestSrc(r))
    /\ StreamOk(s) => OneTurn(StreamSrc(s))
    /\ JobOk(j) => OneTurn(JobSrc(j))
    /\ (RestOk(r) /\ JobOk(j) /\ rest[r].text = jobs[j].text
         /\ rest[r].response.content = jobs[j].response.content
         /\ rest[r].response.total = jobs[j].response.total)
          => Effect(RestSrc(r)) = Effect(JobSrc(j))
    /\ (RestOk(r) /\ StreamOk(s) /\ rest[r].text = st[s].text
         /\ rest[r].response.content = st[s].fullResponse)
          => Effect(RestSrc(r)) = Effect(StreamSrc(s))
    /\ (JobOk(j) /\ StreamOk(s) /\ jobs[j].text = st[s].text
         /\ jobs[j].response.content = st[s].fullResponse)
          => Effect(JobSrc(j)) = Effect(StreamSrc(s))

\* C24: every provider call is bounded: when the upstream never answers a
\* completion call or stops yielding chunks, the call fails with a TimeoutError
\* that is handled like a ProviderError (surfaced to the caller, retried for a
\* job), so that no request, no session and no job waits on the provider
\* forever.
C24_ProviderCallBounded ==
  /\ \A r \in ReqIds : (rest[r].pc = "provider") ~> (rest[r].pc = "done")
  /\ \A s \in StreamIds : (st[s].pc = "stream") ~> (st[s].pc = "done")
  /\ \A j \in JobIds :
       (jobs[j].state = "active" /\ jobs[j].pc = "provider")
         ~> (jobs[j].pc # "provider")

\* C25: a conversation is deleted only by a delete request of its owner: a
\* delete by any other user fails with NotFound and leaves the conversation and
\* its messages unchanged; a delete by the owner removes the conversation
\* together with all of its messages.
C25_DeleteOnlyByOwner ==
  [][ /\ \A c \in ConvIds :
           /\ (convOwner[c] # NoUser /\ convOwner'[c] # convOwner[c])
                => /\ reply' = OkReply("deleteConversation", convOwner[c], c,
                                       204, <<>>)
                   /\ convOwner'[c] = NoUser
           /\ FindMany(messages', c) # FindMany(messages, c)
                => \/ convOwner'[c] = NoUser /\ FindMany(messages', c) = <<>>
                   \/ /\ convOwner'[c] = convOwner[c]
                      /\ Len(FindMany(messages', c)) = Len(FindMany(messages, c)) + 1
      /\ (reply' # reply /\ reply'.op = "deleteConversation")
           => IF convOwner[reply'.conv] = reply'.user
                THEN /\ reply'.status = 204
                     /\ convOwner'[reply'.conv] = NoUser
                     /\ FindMany(messages', reply'.conv) = <<>>
                ELSE /\ reply' = NotFoundReply("deleteConversation", reply'.user,
                                              reply'.conv)
                     /\ UNCHANGED <<convOwner, nextConv, messages, usage>>
    ]_vars

\* the owner's delete was answered 204 for a conversation that held messages,
\* and none of them is stored any more
C25_Witness ==
  /\ reply = OkReply("deleteConversation", reply.user, reply.conv, 204, <<>>)
  /\ convOwner[reply.conv] = NoUser
  /\ \E i \in DOMAIN log : log[i].conv = reply.conv
  /\ \A i \in DOMAIN messages : messages[i].conv # reply.conv

\* C26: refresh tokens rotate: a successful refresh with a valid stored token
\* returns a refresh token different from the one presented, deletes the
\* presented token and stores the new one, so that any later refresh with the
\* presented token is rejected as unauthorized.
C26_RefreshRotates ==
  /\ (auth.res.op = "refresh" /\ auth.res.status = 200)
       => /\ auth.res.refreshToken # auth.res.presented
          /\ ~FindUnique(auth.res.presented)
          /\ FindUnique(auth.res.refreshToken)
  /\ \A t \in auth.rotated : ~FindUnique(t)

\* C27: after a successful logout with a refresh token, that token is no
\* longer stored and every later refresh or logout with it is rejected as
\* unauthorized; a refresh with a token that was never issued is rejected and
\* changes no state.
C27_LogoutRevokes ==
  /\ \A t \in auth.loggedOut : ~FindUnique(t)
  /\ (auth.res.op = "refresh" /\ ~auth.res.known)
       => (auth.res.status = 401 /\ ~auth.res.wrote)

\* the context has at most HistoryLimit + 1 entries and the user message text is
\* its last entry and no other entry
SentOnce(context, text) ==
  LET current == [role |-> "user", content |-> text]
  IN  /\ Len(context) <= HistoryLimit + 1
      /\ Len(context) >= 1
      /\ context[Len(context)] = current
      /\ \A i \in 1..(Len(context) - 1) : context[i] # current

\* C28: in every mode and on every attempt the context handed to the provider
\* has at most 11 entries and holds the current user message exactly once, as
\* its last entry (the handlers of the checked behaviours are the only writers
\* of their conversations, so an equal entry is the same message).
C28_ContextHoldsMessageOnce ==
  /\ \A r \in ReqIds : rest[r].pc = "provider"
        => SentOnce(rest[r].history, rest[r].text)
  /\ \A s \in StreamIds : st[s].pc = "stream"
        => SentOnce(st[s].history, st[s].text)
  /\ \A j \in JobIds : (jobs[j].state = "active" /\ jobs[j].pc = "provider")
        => SentOnce(jobs[j].history, jobs[j].text)

\* the terminal events emitted for stream s
TerminalEvents(s) ==
  SelectSeq(events[st[s].socket],
            LAMBDA e : /\ s \in e.src
                       /\ e.type \in {"chat:end", "chat:error", "chat:stopped"})

\* C29: a chat:start on a connection that stays open produces exactly one
\* terminal event among chat:end, chat:error and chat:stopped: never more than
\* one, and one once the handler has returned, also when the provider's stream
\* ended without a finishReason chunk.
C29_ExactlyOneTerminalEvent ==
  \A s \in StreamIds :
    (st[s].pc # "idle" /\ conn[st[s].socket] = "open")
      => /\ Len(TerminalEvents(s)) <= 1
         /\ st[s].pc = "done" => Len(TerminalEvents(s)) = 1

\* the user a handler run acts for, and the rows it inserted
HandlerUser(src) ==
  CASE src.kind = "rest" -> rest[src.id].user
    [] src.kind = "stream" -> st[src.id].user
    [] src.kind = "job" -> jobs[src.id].user
RowsFrom(kind, id) ==
  SelectSeq(log, LAMBDA m : m.src.kind = kind /\ m.src.id = id)
\* conversation c belongs to a user other than u
Foreign(c, u) == c \in ConvIds /\ convOwner[c] \notin {u, NoUser}

\* C30: every message is appended for the user who owns its conversation at
\* that moment; a handler naming a conversation of another user fails with
\* NotFound and writes nothing; every stored message belongs to a stored
\* conversation, also when the conversation is deleted during a turn.
C30_AppendOnlyForOwner ==
  /\ \A i \in DOMAIN log : log[i].owner = HandlerUser(log[i].src)
  /\ \A i \in DOMAIN messages : convOwner[messages[i].conv] # NoUser
  /\ \A r \in ReqIds :
       (rest[r].pc \notin {"idle", "history"} /\ Foreign(rest[r].conv, rest[r].user))
         => /\ rest[r].pc = "done" /\ rest[r].status = 404
            /\ RowsFrom("rest", r) = <<>>
  /\ \A s \in StreamIds :
       (st[s].pc \notin {"idle", "history"} /\ Foreign(st[s].conv, st[s].user))
         => /\ st[s].pc = "done"
            /\ \E i \in DOMAIN events[st[s].socket] :
                 /\ events[st[s].socket][i].type = "chat:error"
                 /\ events[st[s].socket][i].src = {s}
                 /\ events[st[s].socket][i].data.message = "Conversation not found"
            /\ RowsFrom("stream", s) = <<>>
  /\ \A j \in JobIds :
       (jobs[j].kind = "completion" /\ Foreign(jobs[j].conv, jobs[j].user))
         => /\ jobs[j].pc \in {"", "history", "thrown"}
            /\ \A i \in DOMAIN jobs[j].errors :
                 jobs[j].errors[i] = "NotFoundException"
            /\ RowsFrom("job", j) = <<>>

\* a request for another user's conversation was answered NotFound while the
\* owner's turn on it lost its conversation after its user message
C30_Witness ==
  /\ \E r \in ReqIds : rest[r].status = 404 /\ Foreign(rest[r].conv, rest[r].user)
  /\ \E s \in StreamIds :
       /\ RowsFrom("stream", s) # <<>>
       /\ st[s].conv \in ConvIds /\ convOwner[st[s].conv] = NoUser

====
